---- MODULE Spec2Model ----
(***************************************************************************)
(* Model of azurerm/internal/services/storage/blobs.go: BlobUpload.Create, *)
(* the page blob upload (uploadPageBlob, pageUploadFromSource), the        *)
(* scanner storageBlobPageSplit and the workers blobPageUploadWorker.      *)
(*                                                                         *)
(* Sizes are scaled: a page is minPageSize = 2 bytes and a range holds at  *)
(* most maxPageSize = 4 bytes (two pages), where the source has 4 KiB and  *)
(* 4 MiB.  Bytes are 0 or 1.  No int64 value of the program comes near     *)
(* 2^63 for a file that exists, so the integers are unbounded.             *)
(***************************************************************************)
EXTENDS Integers, Sequences, FiniteSets, TLC

\* ------------------------------------------------------------- constants
minPageSize == 2
maxPageSize == 4

\* ---------------------------------------------------------------- bounds
\* longest source file of the whole program's specification, in bytes
MaxFileSize == 6
\* longest source file of the scanner's own specification, in bytes
MaxScanSize == 9
\* runtime.NumCPU() ranges over 1 .. MaxCPU
MaxCPU == 2

VARIABLES
    sbu,            \* the BlobUpload receiver (the fields Create reads)
    pc,             \* where the calling goroutine is
    result,         \* what Create returned: [returned, err]
    file,           \* content of the opened source file (a byte sequence)
    fileSize,       \* info.Size()
    remote,         \* the remote blob: [exists, content]
    remoteCalls,    \* the calls made on sbu.Client, in order
    workerCount,    \* pageUploadFromSource: workerCount
    blobSize,       \* storageBlobPageSplit: blobSize (the padded size)
    i,              \* storageBlobPageSplit: the loop variable i
    currentRange,   \* storageBlobPageSplit: currentRange
    nonEmptyRanges, \* storageBlobPageSplit: nonEmptyRanges
    pageList,       \* pageUploadFromSource: pageList
    pages,          \* channel pages: [buf, cap, closed]
    errors,         \* channel errors: [buf, cap]
    wg,             \* the sync.WaitGroup counter
    seeded,         \* how many pages the seeding loop (line 185) has sent
    launched,       \* the loop variable of the launch loop (line 191)
    worker,         \* per worker: [pc, page, start, end, chunk, err]
    uploadErr,      \* what pageUploadFromSource returned
    hist            \* history: errors sent, reads and writes attempted

vars == << sbu, pc, result, file, fileSize, remote, remoteCalls, workerCount,
           blobSize, i, currentRange, nonEmptyRanges, pageList, pages, errors,
           wg, seeded, launched, worker, uploadErr, hist >>

splitVars == << blobSize, i, currentRange, nonEmptyRanges, pageList >>
poolVars  == << pages, errors, wg, seeded, launched, worker, uploadErr, hist >>

\* ------------------------------------------------------------ data types
Bytes == {0, 1}

FilesUpTo(n) == UNION { [1..k -> Bytes] : k \in 0..n }

Zeros(n) == [k \in 1..n |-> 0]

NoPage == [offset |-> -1, length |-> 0]

\* an error value: what failed, the offset its message names, what it wraps
Err(kind, offset) == [kind |-> kind, offset |-> offset, cause |-> ""]
NoError == Err("nil", -1)
\* fmt.Errorf("<prefix>: %s", err)
Wrap(prefix, err) == [kind |-> prefix, offset |-> err.offset, cause |-> err.kind]

IdleWorker ==
    [pc |-> "idle", page |-> NoPage, start |-> 0, end |-> -1,
     chunk |-> << >>, err |-> NoError]

\* BlobUpload.Parallelism: negative, unset (zero) or one worker per CPU
Parallelisms == {-1, 0, 1}

Workers == 1 .. MaxCPU

Min(a, b) == IF a <= b THEN a ELSE b

RECURSIVE SumLengths(_)
SumLengths(rs) ==
    IF rs = << >> THEN 0 ELSE rs[1].length + SumLengths(Tail(rs))

\* ------------------------------------------------- io.ReaderAt on a file
\* file.ReadAt(buf, off) on a zeroed buffer of n bytes, when it does not fail:
\* the bytes the file has from off on, the rest of the buffer left zero
\* (io.EOF is returned with a short read and is not an error to the callers).
ReadAt(f, n, off) ==
    [k \in 1..n |-> IF off + k <= Len(f) THEN f[off + k] ELSE 0]

\* ----------------------------------------------- storageBlobPageSplit
\* mutant: a page is added also when the size is a multiple of the page
PaddedSize_AlwaysPads(size) == size + (minPageSize - (size % minPageSize))

\* lines 218-221
PaddedSize(size) ==
    IF size % minPageSize # 0
    THEN size + (minPageSize - (size % minPageSize))
    ELSE size

\* line 223 and line 238: bytes.Equal(pageBuf, emptyPage)
IsEmptyPage(pageBuf) == pageBuf = Zeros(minPageSize)

\* mutant: the accumulation re-anchored at the page just read
NextAnchor_SamePage(at) == [offset |-> at, length |-> 0]

\* lines 242-244 and 249-251: the accumulation re-anchored after page at
NextAnchor(at) == [offset |-> at + minPageSize, length |-> 0]

\* mutant: the accumulation that reaches the end of the blob is not closed
RangeIsFull_NoTail(r, size) == r.length = maxPageSize

\* mutant: the accumulation is closed after every page
RangeIsFull_EveryPage(r, size) == r.length >= minPageSize

\* mutant: the accumulation is closed one page late
RangeIsFull_Late(r, size) ==
    r.length > maxPageSize \/ r.offset + r.length = size

\* line 247: a grown accumulation is closed out
RangeIsFull(r, size) ==
    r.length = maxPageSize \/ r.offset + r.length = size

\* lines 238-253: one page of the loop; gives the new <<currentRange,
\* nonEmptyRanges>>
SplitPage(cur, ranges, at, pageBuf, size) ==
    IF IsEmptyPage(pageBuf)
    THEN << NextAnchor(at),
            IF cur.length # 0 THEN Append(ranges, cur) ELSE ranges >>
    ELSE LET grown == [cur EXCEPT !.length = cur.length + minPageSize]
         IN  IF RangeIsFull(grown, size)
             THEN << NextAnchor(at), Append(ranges, grown) >>
             ELSE << grown, ranges >>

\* lines 256-262: a storageBlobPage is the offset and a SectionReader over
\* [offset, offset + length) of the file
ToPages(ranges) ==
    [k \in 1..Len(ranges) |->
        [offset |-> ranges[k].offset, length |-> ranges[k].length]]

\* lines 218-231: entry of storageBlobPageSplit
SplitBegin ==
    /\ pc = "split"
    /\ blobSize' = PaddedSize(fileSize)
    /\ i' = 0
    /\ currentRange' = [offset |-> 0, length |-> 0]
    /\ nonEmptyRanges' = << >>
    /\ pc' = "splitLoop"
    /\ UNCHANGED << sbu, result, file, fileSize, remote, remoteCalls,
                    workerCount, pageList >>
    /\ UNCHANGED poolVars

\* lines 232-254: one iteration whose ReadAt succeeds (or ends in io.EOF)
SplitLoop ==
    /\ pc = "splitLoop"
    /\ i < blobSize
    /\ LET next == SplitPage(currentRange, nonEmptyRanges, i,
                             ReadAt(file, minPageSize, i), blobSize)
       IN  /\ currentRange' = next[1]
           /\ nonEmptyRanges' = next[2]
    /\ i' = i + minPageSize
    /\ UNCHANGED << sbu, pc, result, file, fileSize, remote, remoteCalls,
                    workerCount, blobSize, pageList >>
    /\ UNCHANGED poolVars

\* mutant: the failed read is reported but the scan's ranges are used
SplitReadError_NoReturn ==
    /\ pc = "splitLoop"
    /\ i < blobSize
    /\ pageList' = ToPages(nonEmptyRanges)
    /\ uploadErr' = Wrap("splitting", Err("chunk", i))
    /\ pc' = "makeChannels"
    /\ UNCHANGED << sbu, result, file, fileSize, remote, remoteCalls,
                    workerCount, blobSize, i, currentRange, nonEmptyRanges,
                    pages, errors, wg, seeded, launched, worker, hist >>

\* lines 234-236 and 174-176: ReadAt fails with an error other than io.EOF;
\* storageBlobPageSplit returns (nil, err), pageUploadFromSource returns it
SplitReadError ==
    /\ pc = "splitLoop"
    /\ i < blobSize
    /\ pageList' = << >>
    /\ uploadErr' = Wrap("splitting", Err("chunk", i))
    /\ pc' = "uploadReturn"
    /\ UNCHANGED << sbu, result, file, fileSize, remote, remoteCalls,
                    workerCount, blobSize, i, currentRange, nonEmptyRanges,
                    pages, errors, wg, seeded, launched, worker, hist >>

\* lines 256-264 and 173: the loop is over, the pages are returned
SplitReturn ==
    /\ pc = "splitLoop"
    /\ ~ (i < blobSize)
    /\ pageList' = ToPages(nonEmptyRanges)
    /\ pc' = "makeChannels"
    /\ UNCHANGED << sbu, result, file, fileSize, remote, remoteCalls,
                    workerCount, blobSize, i, currentRange, nonEmptyRanges >>
    /\ UNCHANGED poolVars

\* ------------------------------------------------------ BlobUpload.Create
\* strings.ToLower on the blob types the model draws
ToLower(s) ==
    CASE s = "Block" -> "block"
      [] s = "Page"  -> "page"
      [] OTHER       -> s

BlobTypes == {"block", "Block", "Page", "append"}

\* mutant: the blob type is compared as given, without strings.ToLower
CreatePath_CaseSensitive(u) ==
    IF u.SourceUri # "" THEN "copy"
    ELSE IF u.BlobType = "block"
         THEN IF u.Source # "" THEN "uploadBlockBlob"
                               ELSE "createEmptyBlockBlob"
    ELSE IF u.BlobType = "page"
         THEN IF u.Source # "" THEN "uploadPageBlob"
                               ELSE "createEmptyPageBlob"
    ELSE "unsupported"

\* lines 37-61: the path Create takes
CreatePath(u) ==
    IF u.SourceUri # "" THEN "copy"
    ELSE IF ToLower(u.BlobType) = "block"
         THEN IF u.Source # "" THEN "uploadBlockBlob"
                               ELSE "createEmptyBlockBlob"
    ELSE IF ToLower(u.BlobType) = "page"
         THEN IF u.Source # "" THEN "uploadPageBlob"
                               ELSE "createEmptyPageBlob"
    ELSE "unsupported"

Returned(err) == [returned |-> TRUE, err |-> err]

\* lines 36-62
Create ==
    /\ pc = "Create"
    /\ IF CreatePath(sbu) = "unsupported"
       THEN /\ pc' = "returned"
            /\ result' = Returned(Err("Unsupported Blob Type", -1))
       ELSE /\ pc' = CreatePath(sbu)
            /\ UNCHANGED result
    /\ UNCHANGED << sbu, file, fileSize, remote, remoteCalls, workerCount >>
    /\ UNCHANGED splitVars
    /\ UNCHANGED poolVars

\* a call on sbu.Client that either succeeds, leaving the blob blob, or fails
ClientCall(name, failure, blob) ==
    /\ remoteCalls' = Append(remoteCalls, name)
    /\ \/ /\ remote' = blob
          /\ result' = Returned(NoError)
       \/ /\ UNCHANGED remote
          /\ result' = Returned(Err(failure, -1))

\* lines 64-74
copy ==
    /\ pc = "copy"
    /\ ClientCall("CopyAndWait", "Error copy/waiting",
                  [exists |-> TRUE, type |-> "copy", content |-> << >>])
    /\ pc' = "returned"
    /\ UNCHANGED << sbu, file, fileSize, workerCount >>
    /\ UNCHANGED splitVars
    /\ UNCHANGED poolVars

\* lines 76-86
createEmptyBlockBlob ==
    /\ pc = "createEmptyBlockBlob"
    /\ ClientCall("PutBlockBlob", "Error PutBlockBlob",
                  [exists |-> TRUE, type |-> "block", content |-> << >>])
    /\ pc' = "returned"
    /\ UNCHANGED << sbu, file, fileSize, workerCount >>
    /\ UNCHANGED splitVars
    /\ UNCHANGED poolVars

\* lines 88-104
uploadBlockBlob ==
    /\ pc = "uploadBlockBlob"
    /\ \/ /\ result' = Returned(Err("Error opening", -1))
          /\ UNCHANGED << file, remote, remoteCalls >>
       \/ \E f \in FilesUpTo(minPageSize) :
            /\ file' = f
            /\ ClientCall("PutBlockBlobFromFile", "Error PutBlockBlobFromFile",
                          [exists |-> TRUE, type |-> "block", content |-> f])
    /\ pc' = "returned"
    /\ UNCHANGED << sbu, fileSize, workerCount >>
    /\ UNCHANGED splitVars
    /\ UNCHANGED poolVars

\* lines 106-121
createEmptyPageBlob ==
    /\ pc = "createEmptyPageBlob"
    /\ IF sbu.Size = 0
       THEN /\ result' = Returned(Err("size cannot be zero for a page blob", -1))
            /\ UNCHANGED << remote, remoteCalls >>
       ELSE ClientCall("PutPageBlob", "Error PutPageBlob",
                       [exists |-> TRUE, type |-> "page",
                        content |-> Zeros(sbu.Size)])
    /\ pc' = "returned"
    /\ UNCHANGED << sbu, file, fileSize, workerCount >>
    /\ UNCHANGED splitVars
    /\ UNCHANGED poolVars

\* --------------------------------------------------------- uploadPageBlob
\* lines 124-126
uploadPageBlob ==
    /\ pc = "uploadPageBlob"
    /\ IF sbu.Size # 0
       THEN /\ pc' = "returned"
            /\ result' = Returned(Err("size cannot be set for an uploaded page blob", -1))
       ELSE /\ pc' = "open"
            /\ UNCHANGED result
    /\ UNCHANGED << sbu, file, fileSize, remote, remoteCalls, workerCount >>
    /\ UNCHANGED splitVars
    /\ UNCHANGED poolVars

\* lines 129-133: os.Open of the source
OpenSource ==
    /\ pc = "open"
    /\ \/ /\ pc' = "returned"
          /\ result' = Returned(Err("Error opening source file for upload", -1))
          /\ UNCHANGED file
       \/ \E f \in FilesUpTo(MaxFileSize) :
            /\ file' = f
            /\ pc' = "stat"
            /\ UNCHANGED result
    /\ UNCHANGED << sbu, fileSize, remote, remoteCalls, workerCount >>
    /\ UNCHANGED splitVars
    /\ UNCHANGED poolVars

\* lines 137-142: file.Stat and info.Size()
StatSource ==
    /\ pc = "stat"
    /\ \/ /\ pc' = "returned"
          /\ result' = Returned(Err("Could not stat file", -1))
          /\ UNCHANGED fileSize
       \/ /\ fileSize' = Len(file)
          /\ pc' = "putPageBlob"
          /\ UNCHANGED result
    /\ UNCHANGED << sbu, file, remote, remoteCalls, workerCount >>
    /\ UNCHANGED splitVars
    /\ UNCHANGED poolVars

\* lines 145-149: BlobContentLengthBytes of the PutPageBlob input
CreatedSize(size) == size

\* mutant: the error of PutPageBlob is dropped and the upload goes on
PutPageBlob_IgnoreError ==
    /\ pc = "putPageBlob"
    /\ remoteCalls' = Append(remoteCalls, "PutPageBlob")
    /\ \/ UNCHANGED remote
       \/ remote' = [exists |-> TRUE, type |-> "page",
                     content |-> Zeros(CreatedSize(fileSize))]
    /\ pc' = "pageUploadFromSource"
    /\ UNCHANGED << sbu, result, file, fileSize, workerCount >>
    /\ UNCHANGED splitVars
    /\ UNCHANGED poolVars

\* lines 151-153: the blob is created, zero-initialised, at that length
PutPageBlob ==
    /\ pc = "putPageBlob"
    /\ remoteCalls' = Append(remoteCalls, "PutPageBlob")
    /\ \/ /\ pc' = "returned"
          /\ result' = Returned(Err("Error PutPageBlob", -1))
          /\ UNCHANGED remote
       \/ /\ remote' = [exists |-> TRUE, type |-> "page",
                        content |-> Zeros(CreatedSize(fileSize))]
          /\ pc' = "pageUploadFromSource"
          /\ UNCHANGED result
    /\ UNCHANGED << sbu, file, fileSize, workerCount >>
    /\ UNCHANGED splitVars
    /\ UNCHANGED poolVars

\* lines 155-159: pageUploadFromSource has returned uploadErr
UploadReturn ==
    /\ pc = "uploadReturn"
    /\ result' = Returned(IF uploadErr # NoError
                          THEN Wrap("Error creating storage blob on Azure", uploadErr)
                          ELSE NoError)
    /\ pc' = "returned"
    /\ UNCHANGED << sbu, file, fileSize, remote, remoteCalls, workerCount >>
    /\ UNCHANGED splitVars
    /\ UNCHANGED poolVars

\* --------------------------------------------------- pageUploadFromSource
\* line 170
PageUploadFromSource ==
    /\ pc = "pageUploadFromSource"
    /\ \E numCPU \in 1..MaxCPU : workerCount' = sbu.Parallelism * numCPU
    /\ pc' = "split"
    /\ UNCHANGED << sbu, result, file, fileSize, remote, remoteCalls >>
    /\ UNCHANGED splitVars
    /\ UNCHANGED poolVars

\* mutant: the counter is set one short of the number of pages
WgAdd_Short(list) == IF Len(list) > 0 THEN Len(list) - 1 ELSE 0

\* line 182: wg.Add(len(pageList))
WgAdd(list) == Len(list)

\* mutant: the error channel holds one error
ErrorsCap_One(list) == Min(1, Len(list))

\* line 180: the capacity of the error channel
ErrorsCap(list) == Len(list)

\* lines 179-182
MakeChannels ==
    /\ pc = "makeChannels"
    /\ pages' = [buf |-> << >>, cap |-> Len(pageList), closed |-> FALSE]
    /\ errors' = [buf |-> << >>, cap |-> ErrorsCap(pageList)]
    /\ wg' = WgAdd(pageList)
    /\ seeded' = 0
    /\ pc' = "seed"
    /\ UNCHANGED << sbu, result, file, fileSize, remote, remoteCalls,
                    workerCount, launched, worker, uploadErr, hist >>
    /\ UNCHANGED splitVars

\* lines 185-188: pages <- page, which blocks while the buffer is full
SeedPage ==
    /\ pc = "seed"
    /\ seeded < Len(pageList)
    /\ Len(pages.buf) < pages.cap
    /\ pages' = [pages EXCEPT !.buf = Append(@, pageList[seeded + 1])]
    /\ seeded' = seeded + 1
    /\ UNCHANGED << sbu, pc, result, file, fileSize, remote, remoteCalls,
                    workerCount, errors, wg, launched, worker, uploadErr,
                    hist >>
    /\ UNCHANGED splitVars

\* line 189: close(pages)
ClosePages ==
    /\ pc = "seed"
    /\ seeded = Len(pageList)
    /\ pages' = [pages EXCEPT !.closed = TRUE]
    /\ launched' = 0
    /\ pc' = "launch"
    /\ UNCHANGED << sbu, result, file, fileSize, remote, remoteCalls,
                    workerCount, errors, wg, seeded, worker, uploadErr, hist >>
    /\ UNCHANGED splitVars

\* lines 191-198: go sbu.blobPageUploadWorker(...)
LaunchWorker ==
    /\ pc = "launch"
    /\ launched < workerCount
    /\ worker' = [worker EXCEPT ![launched + 1].pc = "recv"]
    /\ launched' = launched + 1
    /\ UNCHANGED << sbu, pc, result, file, fileSize, remote, remoteCalls,
                    workerCount, pages, errors, wg, seeded, uploadErr, hist >>
    /\ UNCHANGED splitVars

\* line 191: the launch loop is over
LaunchDone ==
    /\ pc = "launch"
    /\ ~ (launched < workerCount)
    /\ pc' = "wait"
    /\ UNCHANGED << sbu, result, file, fileSize, remote, remoteCalls,
                    workerCount >>
    /\ UNCHANGED splitVars
    /\ UNCHANGED poolVars

\* line 200: wg.Wait() returns once the counter is zero
WgWait ==
    /\ pc = "wait"
    /\ wg = 0
    /\ pc' = "collect"
    /\ UNCHANGED << sbu, result, file, fileSize, remote, remoteCalls,
                    workerCount >>
    /\ UNCHANGED splitVars
    /\ UNCHANGED poolVars

\* mutant: the error sent last is surfaced
SurfacedError_Last(buf) == buf[Len(buf)]

\* line 203: <-errors, the error the call surfaces
SurfacedError(buf) == Head(buf)

\* lines 202-206
CollectErrors ==
    /\ pc = "collect"
    /\ IF Len(errors.buf) > 0
       THEN /\ uploadErr' = Wrap("Error while uploading source file",
                                 SurfacedError(errors.buf))
            /\ errors' = [errors EXCEPT !.buf = Tail(@)]
       ELSE /\ uploadErr' = NoError
            /\ UNCHANGED errors
    /\ pc' = "uploadReturn"
    /\ UNCHANGED << sbu, result, file, fileSize, remote, remoteCalls,
                    workerCount, pages, wg, seeded, launched, worker, hist >>
    /\ UNCHANGED splitVars

\* --------------------------------------------------- blobPageUploadWorker
\* mutant: the end is not clipped to the blob size
ClipEnd_NoClip(page, size) == page.offset + page.length - 1

\* lines 277-280: the last byte the write names
ClipEnd(page, size) == Min(page.offset + page.length - 1, size - 1)

\* mutant: the chunk is read from the start of the file
SectionRead_FromStart(f, page, n) ==
    [k \in 1..n |-> IF k <= page.length /\ k <= Len(f) THEN f[k] ELSE 0]

\* line 284: page.section.Read(chunk) on a fresh SectionReader over
\* [offset, offset + length) of f, into a zeroed chunk of n bytes
SectionRead(f, page, n) ==
    [k \in 1..n |->
        IF k <= page.length /\ page.offset + k <= Len(f)
        THEN f[page.offset + k] ELSE 0]

\* line 296: what a successful PutPageUpdate leaves in the blob: the content
\* at the bytes start .. end
PutPageUpdate(content, input) ==
    [k \in 1..Len(content) |->
        IF /\ input.StartByte < k
           /\ k <= input.EndByte + 1
           /\ k - input.StartByte <= Len(input.Content)
        THEN input.Content[k - input.StartByte] ELSE content[k]]

\* mutant: the received page stays in the queue
Dequeue_Keep(buf) == buf

\* line 275: what the receive leaves in the channel buffer
Dequeue(buf) == Tail(buf)

\* lines 275-283: a page is received; start, end and the chunk are set up
WorkerReceive(w) ==
    /\ worker[w].pc = "recv"
    /\ pages.buf # << >>
    /\ LET page == Head(pages.buf)
           end  == ClipEnd(page, fileSize)
       IN  worker' = [worker EXCEPT ![w] =
                        [pc |-> "read", page |-> page, start |-> page.offset,
                         end |-> end,
                         chunk |-> Zeros(end - page.offset + 1),
                         err |-> NoError]]
    /\ pages' = [pages EXCEPT !.buf = Dequeue(@)]
    /\ UNCHANGED << sbu, pc, result, file, fileSize, remote, remoteCalls,
                    workerCount, errors, wg, seeded, launched, uploadErr,
                    hist >>
    /\ UNCHANGED splitVars

\* line 275: the channel is closed and drained, the worker returns
WorkerExit(w) ==
    /\ worker[w].pc = "recv"
    /\ pages.buf = << >>
    /\ pages.closed
    /\ worker' = [worker EXCEPT ![w].pc = "exit"]
    /\ UNCHANGED << sbu, pc, result, file, fileSize, remote, remoteCalls,
                    workerCount, pages, errors, wg, seeded, launched,
                    uploadErr, hist >>
    /\ UNCHANGED splitVars

\* lines 284 and 290-294: the read succeeds
WorkerRead(w) ==
    /\ worker[w].pc = "read"
    /\ worker' = [worker EXCEPT
                    ![w].chunk = SectionRead(file, worker[w].page, Len(@)),
                    ![w].pc = "put"]
    /\ hist' = [hist EXCEPT !.reads = @ + 1]
    /\ UNCHANGED << sbu, pc, result, file, fileSize, remote, remoteCalls,
                    workerCount, pages, errors, wg, seeded, launched,
                    uploadErr >>
    /\ UNCHANGED splitVars

\* lines 284-285: the read fails with an error other than io.EOF
WorkerReadError(w) ==
    /\ worker[w].pc = "read"
    /\ worker' = [worker EXCEPT
                    ![w].err = Err("Error reading source file",
                                   worker[w].page.offset),
                    ![w].pc = "sendErr"]
    /\ hist' = [hist EXCEPT !.reads = @ + 1, !.failed = @ + 1]
    /\ UNCHANGED << sbu, pc, result, file, fileSize, remote, remoteCalls,
                    workerCount, pages, errors, wg, seeded, launched,
                    uploadErr >>
    /\ UNCHANGED splitVars

\* lines 290-294: the PutPageUpdateInput of the worker
Input(w) ==
    [StartByte |-> worker[w].start, EndByte |-> worker[w].end,
     Content |-> worker[w].chunk]

\* line 296: PutPageUpdate succeeds
WorkerPut(w) ==
    /\ worker[w].pc = "put"
    /\ remoteCalls' = Append(remoteCalls, "PutPageUpdate")
    /\ remote' = [remote EXCEPT !.content = PutPageUpdate(@, Input(w))]
    /\ worker' = [worker EXCEPT ![w].pc = "done"]
    /\ UNCHANGED << sbu, pc, result, file, fileSize, workerCount, pages,
                    errors, wg, seeded, launched, uploadErr, hist >>
    /\ UNCHANGED splitVars

\* lines 296-297: PutPageUpdate fails
WorkerPutError(w) ==
    /\ worker[w].pc = "put"
    /\ remoteCalls' = Append(remoteCalls, "PutPageUpdate")
    /\ worker' = [worker EXCEPT
                    ![w].err = Err("Error writing page", worker[w].page.offset),
                    ![w].pc = "sendErr"]
    /\ hist' = [hist EXCEPT !.failed = @ + 1]
    /\ UNCHANGED << sbu, pc, result, file, fileSize, remote, workerCount,
                    pages, errors, wg, seeded, launched, uploadErr >>
    /\ UNCHANGED splitVars

\* lines 285 and 297: uploadCtx.errors <- err, which blocks while the buffer
\* is full
WorkerSendError(w) ==
    /\ worker[w].pc = "sendErr"
    /\ Len(errors.buf) < errors.cap
    /\ errors' = [errors EXCEPT !.buf = Append(@, worker[w].err)]
    /\ hist' = [hist EXCEPT !.sent = Append(@, worker[w].err)]
    /\ worker' = [worker EXCEPT ![w].pc = "done"]
    /\ UNCHANGED << sbu, pc, result, file, fileSize, remote, remoteCalls,
                    workerCount, pages, wg, seeded, launched, uploadErr >>
    /\ UNCHANGED splitVars

\* mutant: a worker whose page failed returns instead of continuing
AfterDone_StopOnError(w) ==
    IF worker[w].err # NoError THEN "exit" ELSE "recv"

\* where a worker goes after wg.Done(): lines 287, 299 (continue) and 303
AfterDone(w) == "recv"

\* mutant: the completion is signalled twice
WgDone_Twice(n) == n - 2

\* mutant: the completion is not signalled
WgDone_Missing(n) == n

\* lines 286, 298 and 302: uploadCtx.wg.Done()
WgDone(n) == n - 1

WorkerDone(w) ==
    /\ worker[w].pc = "done"
    /\ wg' = WgDone(wg)
    /\ worker' = [worker EXCEPT ![w].pc = AfterDone(w)]
    /\ UNCHANGED << sbu, pc, result, file, fileSize, remote, remoteCalls,
                    workerCount, pages, errors, seeded, launched, uploadErr,
                    hist >>
    /\ UNCHANGED splitVars

\* ---------------------------------------------------------- specifications
FreshPool ==
    /\ pages = [buf |-> << >>, cap |-> 0, closed |-> FALSE]
    /\ errors = [buf |-> << >>, cap |-> 0]
    /\ wg = 0
    /\ seeded = 0
    /\ launched = 0
    /\ worker = [w \in Workers |-> IdleWorker]
    /\ uploadErr = NoError
    /\ hist = [sent |-> << >>, reads |-> 0, failed |-> 0]

FreshSplit ==
    /\ blobSize = 0
    /\ i = 0
    /\ currentRange = [offset |-> 0, length |-> 0]
    /\ nonEmptyRanges = << >>
    /\ pageList = << >>

\* a BlobUpload as the resource hands it to Create
Init ==
    /\ sbu \in [SourceUri : {"", "https://source"},
                BlobType : BlobTypes,
                Source : {"", "disk.vhd"},
                Size : {0, minPageSize},
                Parallelism : Parallelisms]
    /\ pc = "Create"
    /\ result = [returned |-> FALSE, err |-> NoError]
    /\ file = << >>
    /\ fileSize = 0
    /\ remote = [exists |-> FALSE, type |-> "", content |-> << >>]
    /\ remoteCalls = << >>
    /\ workerCount = 0
    /\ FreshSplit
    /\ FreshPool

MainStep ==
    \/ Create
    \/ copy
    \/ createEmptyBlockBlob
    \/ uploadBlockBlob
    \/ createEmptyPageBlob
    \/ uploadPageBlob
    \/ OpenSource
    \/ StatSource
    \/ PutPageBlob
    \/ PageUploadFromSource
    \/ SplitBegin
    \/ SplitLoop
    \/ SplitReadError
    \/ SplitReturn
    \/ MakeChannels
    \/ SeedPage
    \/ ClosePages
    \/ LaunchWorker
    \/ LaunchDone
    \/ WgWait
    \/ CollectErrors
    \/ UploadReturn

WorkerStep(w) ==
    \/ WorkerReceive(w)
    \/ WorkerExit(w)
    \/ WorkerRead(w)
    \/ WorkerReadError(w)
    \/ WorkerPut(w)
    \/ WorkerPutError(w)
    \/ WorkerSendError(w)
    \/ WorkerDone(w)

Next == MainStep \/ \E w \in Workers : WorkerStep(w)

Spec == Init /\ [][Next]_vars

\* the goroutines are scheduled fairly: one that can step does step
FairSpec == Spec /\ WF_vars(MainStep) /\ \A w \in Workers : WF_vars(WorkerStep(w))

\* storageBlobPageSplit on its own: called on an opened file of any content
InitSplit ==
    /\ sbu = [SourceUri |-> "", BlobType |-> "page", Source |-> "disk.vhd",
              Size |-> 0, Parallelism |-> 1]
    /\ pc = "split"
    /\ result = [returned |-> FALSE, err |-> NoError]
    /\ file \in FilesUpTo(MaxScanSize)
    /\ fileSize = Len(file)
    /\ remote = [exists |-> TRUE, type |-> "page",
                 content |-> Zeros(CreatedSize(Len(file)))]
    /\ remoteCalls = << "PutPageBlob" >>
    /\ workerCount = 1
    /\ FreshSplit
    /\ FreshPool

NextSplit == SplitBegin \/ SplitLoop \/ SplitReadError \/ SplitReturn

SpecSplit == InitSplit /\ [][NextSplit]_vars

\* ------------------------------------------------------------ the scanner
\* page p (from 0) of the zero-padded file f holds a non-zero byte
PageHasData(f, p) ==
    \E k \in (p * minPageSize + 1) .. ((p + 1) * minPageSize) :
        k <= Len(f) /\ f[k] # 0

PageCount(f) == PaddedSize(Len(f)) \div minPageSize

\* the byte offsets of the padded file that lie in a page holding data
DataBytes(f) ==
    { b \in 0 .. (PaddedSize(Len(f)) - 1) : PageHasData(f, b \div minPageSize) }

\* the byte offsets the ranges rs cover
CoveredBytes(rs, f) ==
    { b \in 0 .. (PaddedSize(Len(f)) + maxPageSize) :
        \E k \in 1..Len(rs) :
            rs[k].offset <= b /\ b < rs[k].offset + rs[k].length }

SplitReturned == pc = "makeChannels"

\* C1: the ranges storageBlobPageSplit returns cover exactly the pages of the
\* zero-padded file that hold a non-zero byte; an empty or all-zero file gives
\* no range; a file whose pages all hold data gives ranges whose lengths sum
\* to the padded size.
C1_ExactCoverage ==
    SplitReturned =>
        /\ CoveredBytes(pageList, file) = DataBytes(file)
        /\ (\A p \in 0 .. (PageCount(file) - 1) : ~ PageHasData(file, p))
              => pageList = << >>
        /\ (\A p \in 0 .. (PageCount(file) - 1) : PageHasData(file, p))
              => SumLengths(pageList) = PaddedSize(fileSize)

\* a file with a short last page, a hole and data on both sides of it
C1_Witness ==
    /\ SplitReturned
    /\ fileSize % minPageSize # 0
    /\ Len(pageList) >= 2
    /\ \E p \in 0 .. (PageCount(file) - 1) : ~ PageHasData(file, p)
    /\ PageHasData(file, PageCount(file) - 1)

\* the ranges rs do not overlap and ascend
Ascending(rs) ==
    \A k \in 1 .. (Len(rs) - 1) :
        rs[k].offset + rs[k].length <= rs[k + 1].offset

\* C2: the ranges are pairwise non-overlapping and in strictly ascending
\* offset order: each ends no later than the next begins (while they are
\* collected and when they are returned).
C2_DisjointAscending ==
    /\ Ascending(nonEmptyRanges)
    /\ SplitReturned => Ascending(pageList)

C2_Witness ==
    /\ SplitReturned
    /\ Len(pageList) >= 3
    /\ pageList[1].offset + pageList[1].length = pageList[2].offset
    /\ pageList[2].offset + pageList[2].length < pageList[3].offset

\* the bounds of a byte range, its length being at least least
RangeBounds(r, least) ==
    /\ r.offset % minPageSize = 0
    /\ r.length >= least
    /\ r.length % minPageSize = 0
    /\ r.length <= maxPageSize
    /\ r.offset + r.length <= blobSize

AllRangesBounded ==
    /\ \A k \in 1..Len(nonEmptyRanges) : RangeBounds(nonEmptyRanges[k], 1)
    /\ \A k \in 1..Len(pageList) : RangeBounds(pageList[k], 1)

InSplitLoop == pc = "splitLoop"

\* C3 as stated: every returned range is aligned, non-empty, a multiple of
\* the page unit, at most maxPageSize and within the padded size, and so is
\* the running accumulation after every loop step.
C3_Original ==
    /\ AllRangesBounded
    /\ (InSplitLoop /\ i > 0) => RangeBounds(currentRange, 1)

\* C3 as amended: the same, except that the running accumulation may be
\* empty (length >= 0): it is empty whenever a range has just been closed
\* out or a zero page has just been read.
C3_RangeBounds ==
    /\ AllRangesBounded
    /\ InSplitLoop => RangeBounds(currentRange, 0)

\* a full range has been closed out and the accumulation is growing again
C3_Witness ==
    /\ InSplitLoop
    /\ currentRange.length > 0
    /\ Len(nonEmptyRanges) >= 1
    /\ nonEmptyRanges[1].length = maxPageSize

\* ------------------------------------------------------- the page upload
PageWithSource == CreatePath(sbu) = "uploadPageBlob"

\* C4 as stated: in the page-blob-with-source path the remote blob is created
\* at the padded size, the file size rounded up to a multiple of the page
\* unit.
C4_CreatedAtPaddedSize ==
    (PageWithSource /\ remote.exists)
        => Len(remote.content) = PaddedSize(fileSize)

\* wg.Wait() of pageUploadFromSource has returned
WaitReturned ==
    pages.closed /\ pc \in {"collect", "uploadReturn", "returned"}

\* the workers that hold a page
Busy == { w \in Workers : worker[w].pc \in {"read", "put", "sendErr", "done"} }

\* the calls of PutPageUpdate made so far
Writes == Cardinality({ k \in 1..Len(remoteCalls) : remoteCalls[k] = "PutPageUpdate" })

\* C5: when every write succeeded and the wait is over, the blob holds the
\* file's byte at every offset where the file is non-zero, and its content is
\* a function of the file alone (the file itself), whatever the interleaving
\* and the worker count; the intervals two workers write never intersect.
C5_Reconstructs ==
    /\ (WaitReturned /\ hist.failed = 0) =>
          /\ \A k \in 1..Len(file) :
                file[k] # 0 =>
                    k <= Len(remote.content) /\ remote.content[k] = file[k]
          /\ remote.content = file
    /\ \A v, w \in Busy :
          v # w => \/ worker[v].end < worker[w].start
                   \/ worker[w].end < worker[v].start

C5_Witness ==
    /\ WaitReturned
    /\ hist.failed = 0
    /\ workerCount >= 2
    /\ Len(pageList) >= 2
    /\ fileSize % minPageSize # 0
    /\ file[fileSize] # 0
    /\ remote.content = file

\* C6: once wg.Wait() has returned, the queue is empty, no worker holds a
\* page, and every page has had its read and, unless the read failed, its
\* write.
C6_AllProcessed ==
    WaitReturned =>
        /\ pages.buf = << >>
        /\ Busy = {}
        /\ hist.reads = Len(pageList)
        /\ Writes + Len(hist.sent) = Len(pageList) + Cardinality(
               { k \in 1..Len(hist.sent) : hist.sent[k].kind = "Error writing page" })

C6_Witness ==
    /\ WaitReturned
    /\ workerCount >= 2
    /\ Len(pageList) >= 2
    /\ hist.failed >= 1
    /\ Writes >= 1

\* pageUploadFromSource has returned uploadErr
UploadReturned == pc = "uploadReturn"

\* the error of pageUploadFromSource is the wrapped first error sent
SurfacesFirst ==
    /\ uploadErr # NoError <=> hist.failed > 0
    /\ uploadErr # NoError =>
          uploadErr = Wrap("Error while uploading source file", hist.sent[1])

\* C7 as stated: pageUploadFromSource returns an error if and only if a
\* range's read or write failed, and then the first error sent on the channel.
C7_Original == UploadReturned => SurfacesFirst

\* C7 as amended: once the scan has succeeded, pageUploadFromSource returns an
\* error if and only if a range's read or write failed, and then the first
\* error sent on the channel; every failure's error is in the channel when the
\* wait returns. (A failed scan also returns an error, with no range failed.)
C7_FirstErrorWins ==
    /\ (UploadReturned /\ pages.closed) => SurfacesFirst
    /\ WaitReturned => Len(hist.sent) = hist.failed
    /\ pc = "collect" => errors.buf = hist.sent

C7_Witness ==
    /\ UploadReturned
    /\ pages.closed
    /\ Len(hist.sent) >= 2
    /\ hist.sent[1] # hist.sent[2]
    /\ uploadErr = Wrap("Error while uploading source file", hist.sent[1])

\* C8: a failure never keeps another range from being attempted: a worker
\* returns only from a drained queue; when the wait is over every page has
\* been read; and when one write failed and nothing else, one error was
\* recorded, the call returns an error, and there were as many writes as pages.
C8_FailureIsolated ==
    /\ \A w \in Workers : worker[w].pc = "exit" => pages.buf = << >>
    /\ WaitReturned => hist.reads = Len(pageList)
    /\ (/\ WaitReturned
        /\ hist.failed = 1
        /\ hist.sent[1].kind = "Error writing page")
          => /\ Len(hist.sent) = 1
             /\ Writes = Len(pageList)
             /\ pc = "collect" => Len(errors.buf) = 1
             /\ UploadReturned => uploadErr # NoError

C8_Witness ==
    /\ UploadReturned
    /\ pages.closed
    /\ hist.failed = 1
    /\ hist.sent[1].kind = "Error writing page"
    /\ hist.sent[1].offset = 0
    /\ Len(pageList) >= 2
    /\ Writes = Len(pageList)
    /\ uploadErr # NoError

AllWorkersGone == \A w \in Workers : worker[w].pc \in {"idle", "exit"}

\* C9: with at least one worker and fair scheduling, pageUploadFromSource
\* returns and every launched worker exits, whatever the ranges and failures.
C9_Terminates ==
    (pc = "split" /\ workerCount >= 1)
        ~> (pc = "returned" /\ AllWorkersGone)

\* more workers than pages, a failure, and everything over
C9_Witness ==
    /\ pc = "returned"
    /\ pages.closed
    /\ workerCount > Len(pageList)
    /\ Len(pageList) >= 1
    /\ hist.failed >= 1
    /\ \A w \in 1..workerCount : worker[w].pc = "exit"

\* the pages the scanner returned
ScannedPages == { pageList[k] : k \in 1..Len(pageList) }

\* C10: the write of a worker names StartByte = offset and EndByte =
\* min(offset + length - 1, fileSize - 1) of a scanned range, carries
\* EndByte - StartByte + 1 bytes, and 0 <= StartByte <= EndByte <= fileSize - 1.
C10_WriteBounds ==
    \A w \in Busy :
        LET in == Input(w)
            pg == worker[w].page
        IN  /\ pg \in ScannedPages
            /\ in.StartByte = pg.offset
            /\ in.EndByte = Min(pg.offset + pg.length - 1, fileSize - 1)
            /\ Len(in.Content) = in.EndByte - in.StartByte + 1
            /\ 0 <= in.StartByte
            /\ in.StartByte <= in.EndByte
            /\ in.EndByte <= fileSize - 1

\* a write whose end was clipped to the file size
C10_Witness ==
    \E w \in Workers :
        /\ worker[w].pc = "done"
        /\ worker[w].err = NoError
        /\ worker[w].end < worker[w].page.offset + worker[w].page.length - 1
        /\ worker[w].start > 0

\* ------------------------------------------------------------ the dispatch
IsBlock(u) == u.BlobType \in {"block", "Block", "BLOCK"}
IsPage(u)  == u.BlobType \in {"page", "Page", "PAGE"}

\* the combinations C11 names as invalid
InvalidCombination(u) ==
    /\ u.SourceUri = ""
    /\ \/ ~ IsBlock(u) /\ ~ IsPage(u)
       \/ IsPage(u) /\ u.Source # "" /\ u.Size # 0
       \/ IsPage(u) /\ u.Source = "" /\ u.Size = 0

\* the one path a valid combination asks for
ExpectedPath(u) ==
    IF u.SourceUri # "" THEN "copy"
    ELSE IF IsBlock(u) /\ u.Source = "" THEN "createEmptyBlockBlob"
    ELSE IF IsBlock(u) THEN "uploadBlockBlob"
    ELSE IF u.Source = "" THEN "createEmptyPageBlob"
    ELSE "uploadPageBlob"

\* the path the calling goroutine is on
PathOfPc ==
    IF pc \in {"copy", "createEmptyBlockBlob", "uploadBlockBlob",
               "createEmptyPageBlob"}
    THEN pc ELSE "uploadPageBlob"

\* the calls on sbu.Client each path makes
PathCalls(path) ==
    CASE path = "copy" -> {"CopyAndWait"}
      [] path = "createEmptyBlockBlob" -> {"PutBlockBlob"}
      [] path = "uploadBlockBlob" -> {"PutBlockBlobFromFile"}
      [] path = "createEmptyPageBlob" -> {"PutPageBlob"}
      [] path = "uploadPageBlob" -> {"PutPageBlob", "PutPageUpdate"}

ValidationErrors ==
    { "Unsupported Blob Type",
      "size cannot be zero for a page blob",
      "size cannot be set for an uploaded page blob" }

\* C11: with no copy source, an unsupported blob type, a page blob with a
\* source and a size, and a page blob with neither make Create fail its
\* validation with no call on the client; every other combination takes its
\* one path of the five and fails no validation.
C11_Dispatch ==
    /\ InvalidCombination(sbu) =>
          /\ remoteCalls = << >>
          /\ ~ remote.exists
          /\ pc = "returned" => result.err.kind \in ValidationErrors
    /\ ~ InvalidCombination(sbu) =>
          /\ pc \notin {"Create", "returned"} => PathOfPc = ExpectedPath(sbu)
          /\ \A k \in 1..Len(remoteCalls) :
                remoteCalls[k] \in PathCalls(ExpectedPath(sbu))
          /\ pc = "returned" => result.err.kind \notin ValidationErrors

\* a page blob given as "Page" with a source and a size has been refused
C11_Witness ==
    /\ pc = "returned"
    /\ sbu.SourceUri = ""
    /\ sbu.BlobType = "Page"
    /\ sbu.Source # ""
    /\ sbu.Size # 0
    /\ result.err.kind = "size cannot be set for an uploaded page blob"
    /\ remoteCalls = << >>

\* ---------------------------------------------------------- a failed scan
\* storageBlobPageSplit has failed on a read
ScanFailed == uploadErr.kind = "splitting"

\* C12: when a page read of the scan fails (not with end-of-file), no range
\* is returned and pageUploadFromSource returns that failure with no worker
\* launched and no write issued; a read cut short by end-of-file is no error,
\* and the unread tail of the last page counts as zero bytes.
C12_ScanFailureAborts ==
    /\ ScanFailed =>
          /\ pc \in {"uploadReturn", "returned"}
          /\ pageList = << >>
          /\ launched = 0
          /\ \A w \in Workers : worker[w] = IdleWorker
          /\ Writes = 0
          /\ hist.reads = 0
          /\ pc = "returned" =>
                result.err = Wrap("Error creating storage blob on Azure", uploadErr)
    /\ (SplitReturned /\ fileSize % minPageSize # 0) =>
          /\ uploadErr = NoError
          /\ PageHasData(file, PageCount(file) - 1)
                <=> /\ pageList # << >>
                    /\ pageList[Len(pageList)].offset
                         + pageList[Len(pageList)].length = blobSize

\* the scan failed after it had found a range; nothing was uploaded
C12_Witness ==
    /\ pc = "returned"
    /\ ScanFailed
    /\ uploadErr.offset > 0
    /\ nonEmptyRanges # << >>
    /\ remoteCalls = << "PutPageBlob" >>

\* the scan read past the end of the file and went on
C12_WitnessEOF ==
    /\ SplitReturned
    /\ fileSize % minPageSize # 0
    /\ file[fileSize] # 0

\* -------------------------------------------------------- the padded size
\* n is the smallest multiple of the page unit that is at least size
SmallestMultiple(n, size) ==
    /\ n % minPageSize = 0
    /\ n >= size
    /\ \A m \in 0..(size + minPageSize) :
          (m % minPageSize = 0 /\ m >= size) => n <= m

\* C13: the padded size the scanner computes is the smallest multiple of the
\* page unit that is at least the file size (the file size itself when it is
\* a multiple, 0 for an empty file), and the loop visits exactly
\* paddedBlobSize / pageUnit pages: i counts them, one page unit each.
C13_PaddedSize ==
    /\ (InSplitLoop \/ SplitReturned) =>
          /\ SmallestMultiple(blobSize, fileSize)
          /\ fileSize % minPageSize = 0 => blobSize = fileSize
          /\ fileSize = 0 => blobSize = 0
          /\ i % minPageSize = 0
          /\ i <= blobSize
    /\ SplitReturned => i \div minPageSize = blobSize \div minPageSize

C13_Witness ==
    /\ SplitReturned
    /\ fileSize % minPageSize # 0
    /\ blobSize > fileSize
    /\ i \div minPageSize >= 3

\* ------------------------------------------------------ the wait group
\* the channels and the wait group of pageUploadFromSource exist
PoolMade == pc \in {"seed", "launch", "wait", "collect"} \/ pages.closed

\* the pages received from the queue, and those whose processing is over
Taken == seeded - Len(pages.buf)
Completed == Taken - Cardinality(Busy)

\* the offsets of the pages for which an error was sent
SentOffsets == { hist.sent[k].offset : k \in 1..Len(hist.sent) }

\* C14: every queued range signals completion exactly once on every path, so
\* the counter starts at the number of ranges, is never negative, is the
\* number of ranges not yet completed, and is zero exactly when all are
\* processed; a failed range records exactly one error, a successful one none.
C14_OneSignalPerRange ==
    PoolMade =>
        /\ wg >= 0
        /\ pc = "seed" => wg = Len(pageList)
        /\ wg = Len(pageList) - Completed
        /\ wg = 0 <=> (/\ seeded = Len(pageList)
                       /\ pages.buf = << >>
                       /\ Busy = {})
        /\ Len(hist.sent) + Cardinality({ w \in Workers : worker[w].pc = "sendErr" })
              = hist.failed
        /\ Cardinality(SentOffsets) = Len(hist.sent)
        /\ \A w \in Workers :
              worker[w].pc = "done" =>
                  (worker[w].err # NoError <=> worker[w].page.offset \in SentOffsets)

\* two ranges, one read failure, one success, and the counter back at zero
C14_Witness ==
    /\ PoolMade
    /\ Len(pageList) = 2
    /\ wg = 0
    /\ Len(hist.sent) = 1
    /\ hist.sent[1].kind = "Error reading source file"
    /\ Writes = 1

\* ------------------------------------------------- one worker per range
Queued == { pages.buf[k] : k \in 1..Len(pages.buf) }

\* the workers that have received a page at some time
Engaged == { w \in Workers : worker[w].page # NoPage }

\* C15: a queued range is taken by exactly one worker and read and written
\* at most once: no two workers hold the same range, no held range is in the
\* queue, the queue never holds a range twice, reads and writes never exceed
\* the ranges taken; when the wait is over every range was read exactly once;
\* at most as many workers as there are ranges ever receive one.
C15_OneWorkerPerRange ==
    /\ \A v, w \in Busy : v # w => worker[v].page # worker[w].page
    /\ \A w \in Busy : worker[w].page \notin Queued
    /\ Cardinality(Queued) = Len(pages.buf)
    /\ PoolMade => /\ Taken <= Len(pageList)
                   /\ hist.reads =
                        Taken - Cardinality({ w \in Workers : worker[w].pc = "read" })
                   /\ Writes <= hist.reads
    /\ WaitReturned => hist.reads = Len(pageList)
    /\ Cardinality(Engaged) <= Len(pageList)

\* two workers, one range: one worker processed it, the other nothing, both
\* have exited
C15_Witness ==
    /\ WaitReturned
    /\ workerCount = 2
    /\ Len(pageList) = 1
    /\ Cardinality(Engaged) = 1
    /\ \A w \in 1..workerCount : worker[w].pc = "exit"
    /\ Writes = 1

\* --------------------------------------------------------- maximal ranges
AllPagesHaveData(f) ==
    \A p \in 0 .. (PageCount(f) - 1) : PageHasData(f, p)

\* C16: the returned ranges are maximal: two consecutive ranges touch only if
\* the earlier one has length maxPageSize, and otherwise the page right after
\* the earlier one is all zero; so a run of pages with data gives full ranges
\* and then at most one shorter one (five such pages with a two-page maximum:
\* lengths 2, 2, 1 pages at page offsets 0, 2, 4).
C16_MaximalRanges ==
    SplitReturned =>
        /\ \A k \in 1 .. (Len(pageList) - 1) :
              LET r == pageList[k]
                  s == pageList[k + 1]
              IN  /\ r.offset + r.length = s.offset => r.length = maxPageSize
                  /\ r.offset + r.length < s.offset =>
                        ~ PageHasData(file, (r.offset + r.length) \div minPageSize)
        /\ AllPagesHaveData(file) =>
              \A k \in 1 .. (Len(pageList) - 1) : pageList[k].length = maxPageSize
        /\ (AllPagesHaveData(file) /\ PageCount(file) = 5) =>
              pageList = << [offset |-> 0, length |-> maxPageSize],
                            [offset |-> maxPageSize, length |-> maxPageSize],
                            [offset |-> 2 * maxPageSize, length |-> minPageSize] >>

\* the scenario of the specification, scaled: five pages of data
C16_Witness ==
    /\ SplitReturned
    /\ AllPagesHaveData(file)
    /\ PageCount(file) = 5
    /\ Len(pageList) = 3
    /\ pageList[3].length < maxPageSize

\* ----------------------------------------------------------- the channels
\* C17: a send on the error channel never blocks and loses nothing: the
\* channel never holds more than its capacity, the number of ranges, and has
\* room whenever a worker is about to send; until it is read it holds every
\* error sent. Seeding never blocks, the queue's capacity being the number of
\* ranges, and the queue is full-seeded and closed before any worker runs.
C17_ChannelsNeverBlock ==
    /\ Len(errors.buf) <= errors.cap
    /\ Len(pages.buf) <= pages.cap
    /\ PoolMade => /\ errors.cap = Len(pageList)
                   /\ pages.cap = Len(pageList)
                   /\ Len(hist.sent) <= Len(pageList)
    /\ \A w \in Workers :
          worker[w].pc = "sendErr" => Len(errors.buf) < errors.cap
    /\ (pc = "seed" /\ seeded < Len(pageList)) => Len(pages.buf) < pages.cap
    /\ \A w \in Workers :
          worker[w].pc # "idle" => pages.closed /\ seeded = Len(pageList)
    /\ pc \in {"launch", "wait", "collect"} => errors.buf = hist.sent

\* every range has failed and the error channel is full
C17_Witness ==
    /\ pc = "collect"
    /\ Len(pageList) = 2
    /\ Len(errors.buf) = errors.cap
    /\ errors.buf[1].kind # errors.buf[2].kind

\* ------------------------------------------------- the order of the effects
\* a page blob is asked for, with a source file and no copy source
PageUploadAsked == sbu.SourceUri = "" /\ IsPage(sbu) /\ sbu.Source # ""

\* the calling goroutine is in the scan or past it
ScanOrLater ==
    pc \in {"split", "splitLoop", "makeChannels", "seed", "launch", "wait",
            "collect", "uploadReturn"}

\* C18: in the page-blob-with-source path the blob is created before the scan
\* and before any write; a failed open or stat makes no call on the client; a
\* failed creation is followed by no scan and no write; a failed upload
\* leaves the created blob in place, no other call than PutPageBlob and
\* PutPageUpdate being made.
C18_OrderOfEffects ==
    PageUploadAsked =>
        /\ ScanOrLater =>
              /\ remote.exists
              /\ remoteCalls # << >>
              /\ remoteCalls[1] = "PutPageBlob"
        /\ \A k \in 1..Len(remoteCalls) :
              /\ remoteCalls[k] \in {"PutPageBlob", "PutPageUpdate"}
              /\ remoteCalls[k] = "PutPageBlob" <=> k = 1
        /\ Writes > 0 => remote.exists
        /\ (pc = "returned" /\ result.err.kind \in
               {"Error opening source file for upload", "Could not stat file"})
              => remoteCalls = << >> /\ ~ remote.exists
        /\ (pc = "returned" /\ result.err.kind = "Error PutPageBlob")
              => /\ remoteCalls = << "PutPageBlob" >>
                 /\ ~ remote.exists
                 /\ pageList = << >>
                 /\ hist.reads = 0
                 /\ \A w \in Workers : worker[w] = IdleWorker
        /\ (pc = "returned"
            /\ result.err.kind = "Error creating storage blob on Azure")
              => remote.exists /\ remote.type = "page"
                               /\ Len(remote.content) = fileSize

\* an upload that failed on a write after another write had succeeded
C18_Witness ==
    /\ PageUploadAsked
    /\ pc = "returned"
    /\ result.err.kind = "Error creating storage blob on Azure"
    /\ result.err.cause = "Error while uploading source file"
    /\ Writes = 2
    /\ remote.exists
    /\ remote.content # Zeros(fileSize)

\* ------------------------------------------------------ the blocked wait
\* C19 as stated: pageUploadFromSource cannot block forever, for every worker
\* count (zero and negative too) and every non-empty range list: while
\* wg.Wait() is blocked, some worker can still take a step towards the
\* completions it waits for.
C19_WaitCanFinish ==
    (pc = "wait" /\ Len(pageList) > 0 /\ wg > 0)
        => \E w \in Workers : ENABLED WorkerStep(w)

====
